---- MODULE Spec2Model ----
(***************************************************************************)
(* trysafely: wrappers that run a producer (a zero-argument function or an *)
(* already-built promise) and return its failure as data.                  *)
(*                                                                         *)
(* Entry points modelled                                                   *)
(*   tryAsync        src/unnamed/part_000:8    { data, err }               *)
(*   trySync         src/unnamed/part_000:25   { data, err }, no await     *)
(*   trySafelyDyn    src/unnamed/part_000:42   { data, err }, default      *)
(*                   export, "fully dynamic" (value or promise)            *)
(*   trySafelyTuple  src/unnamed/part_000:74   [ value, error ]            *)
(*   trySafely       src/src/index.ts:29       { result, error }           *)
(*   tryPromise      src/src/promises/index.ts:18  { result, error }       *)
(*                                                                         *)
(* An async function runs synchronously up to its first `await`; a `throw` *)
(* that leaves an async function rejects the promise the call returned, it *)
(* never raises in the caller.  A `throw` that leaves the plain function   *)
(* trySync raises in the caller.                                           *)
(***************************************************************************)
EXTENDS Integers, Sequences, FiniteSets, TLC

\* Number of invocations in flight under Spec (they share no state).
NumInv == 1
\* Number of branches handed to Promise.all under FanSpec (README.md:167-173).
FanOut == 3

VARIABLES
    entry,      \* entry[i]   : the entry point invocation i went through
    phase,      \* phase[i]   : "idle" | "running" | "done" | "rejected" | "raised"
    outcome,    \* outcome[i] : what the caller passed / what the producer did
    calls,      \* calls[i]   : one element per call of fn: the number of arguments
    awaits,     \* awaits[i]  : number of `await` expressions evaluated
    awaited,    \* awaited[i] : the operand of the pending `await`
    result,     \* result[i]  : the Result the invocation returned / resolved to
    failure,    \* failure[i] : the value the invocation raised / rejected with
    pstate,     \* pstate[i]  : state of the producer's promise of invocation i
    pval,       \* pval[i]    : its fulfilment value or rejection reason
    comb,       \* Promise.all over the invocations: "idle" | "pending" | ...
    combVal     \* its array of Results, or its rejection reason

vars == <<entry, phase, outcome, calls, awaits, awaited, result, failure,
          pstate, pval, comb, combVal>>

invVars == <<entry, phase, outcome, calls, awaits, awaited, result, failure>>

----------------------------------------------------------------------------
\* JavaScript values.  kind is the value's type; s a string's characters or an
\* Error's message; id a number's value, an object's identity or a promise's
\* index; cls an Error's class.

MkVal(kind, cls, s, id) == [kind |-> kind, cls |-> cls, s |-> s, id |-> id]

Undefined == MkVal("undefined", "", "", 0)
Null      == MkVal("null", "", "", 0)
Num42     == MkVal("number", "", "", 42)
StrNope   == MkVal("string", "", "nope", 0)
ObjId1    == MkVal("object", "", "", 1)          \* { id: 1 }
BareObj   == MkVal("nullproto", "", "", 2)       \* Object.create(null)
ErrBoom   == MkVal("error", "Error", "boom", 1)  \* the producer's new Error("boom")

PromiseRef(p) == MkVal("promise", "", "", p)

\* new Error(msg) built by the wrapper: a fresh object (identity 0).
NewError(msg) == MkVal("error", "Error", msg, 0)

\* Errors the JavaScript engine raises.
NotAFunctionError == MkVal("error", "TypeError", "fn is not a function", 0)
ReadThenError ==
    MkVal("error", "TypeError",
          "Cannot read properties of undefined (reading 'then')", 0)
ToPrimitiveError ==
    MkVal("error", "TypeError", "Cannot convert object to primitive value", 0)

\* Values a producer returns, resolves with, throws or rejects with.
Values == {Num42, StrNope, Null, Undefined, ObjId1, BareObj, ErrBoom}

NoValue == Undefined

----------------------------------------------------------------------------
\* String(value), as the catch blocks call it.

NumStr(n) ==
    CASE n = 42 -> "42"
      [] n = 0  -> "0"
      [] n = 1  -> "1"
      [] n = 2  -> "2"

ErrStr(v) ==
    CASE v.cls = "Error" /\ v.s = "boom" -> "Error: boom"
      [] v.cls = "TypeError" /\ v.s = "fn is not a function"
            -> "TypeError: fn is not a function"
      [] OTHER -> "Error"

\* String(v) throws a TypeError when v has neither toString nor valueOf
\* (an object without a prototype).
StringThrows(v) == v.kind = "nullproto"

JSString(v) ==
    CASE v.kind = "number"    -> NumStr(v.id)
      [] v.kind = "string"    -> v.s
      [] v.kind = "null"      -> "null"
      [] v.kind = "undefined" -> "undefined"
      [] v.kind = "object"    -> "[object Object]"
      [] v.kind = "promise"   -> "[object Promise]"
      [] v.kind = "error"     -> ErrStr(v)

\* error instanceof Error
IsError(v) == v.kind = "error"

\* Reading v.then throws on undefined and on null.
ReadThenThrows(v) == v.kind \in {"undefined", "null"}

\* typeof v.then === "function"
HasCallableThen(v) == v.kind = "promise"

----------------------------------------------------------------------------
\* Results.  shape: "data_err" is { data, err }, "result_error" is
\* { result, error }, "tuple" is [ value, error ].

NoResult == [shape |-> "none", payload |-> Undefined, error |-> Undefined]

MkOk(shape, v) == [shape |-> shape, payload |-> v, error |-> Null]

MkErrKeepData(shape, err) == [shape |-> shape, payload |-> err, error |-> err]

MkErr(shape, err) == [shape |-> shape, payload |-> Null, error |-> err]

Shape(e) ==
    CASE e \in {"tryAsync", "trySync", "trySafelyDyn"} -> "data_err"
      [] e \in {"trySafely", "tryPromise"}             -> "result_error"
      [] e = "trySafelyTuple"                          -> "tuple"

\* How an invocation ends: with a Result, or by throwing `failure`.
OkExit(e, v) ==
    [phase |-> "done", result |-> MkOk(Shape(e), v), failure |-> NoValue]

ErrExit(e, err) ==
    [phase |-> "done", result |-> MkErr(Shape(e), err), failure |-> NoValue]

\* An exception that leaves the function: trySync is a plain function and
\* raises; the others are async functions and reject their promise.
ThrowExit(e, exc) ==
    [phase   |-> IF e = "trySync" THEN "raised" ELSE "rejected",
     result  |-> NoResult,
     failure |-> exc]

NormalizeRaw(error) == error

\* error instanceof Error ? error : new Error(String(error))
\* (defined where String(error) returns)
Normalize(error) == IF IsError(error) THEN error ELSE NewError(JSString(error))

\* catch (error) { const err = ...; return <Err> }
CatchExit(e, error) ==
    IF ~IsError(error) /\ StringThrows(error)
    THEN ThrowExit(e, ToPrimitiveError)
    ELSE ErrExit(e, Normalize(error))

----------------------------------------------------------------------------
\* Producers: the argument fn and what calling it does.

Producers ==
    {[act |-> "return", val |-> v] : v \in Values}
    \cup {[act |-> "throw", val |-> v] : v \in Values}
    \cup {[act |-> "async", val |-> NoValue]}
    \cup {[act |-> "noncallable", val |-> Num42]}

PromiseArg == [act |-> "promise", val |-> NoValue]

NoProducer == [act |-> "none", val |-> NoValue]

IsFunctionAlways(fn) == TRUE

\* typeof fn === "function"
IsFunction(fn) == fn.act # "noncallable"

\* fn(): whether it threw, the value returned or thrown, the argument count of
\* each call made, and whether the call created promise i.
CallFn(i, fn) ==
    CASE fn.act = "noncallable" ->
            [threw |-> TRUE, val |-> NotAFunctionError, args |-> <<>>,
             spawn |-> FALSE]
      [] fn.act = "return" ->
            [threw |-> FALSE, val |-> fn.val, args |-> <<0>>, spawn |-> FALSE]
      [] fn.act = "throw" ->
            [threw |-> TRUE, val |-> fn.val, args |-> <<0>>, spawn |-> FALSE]
      [] fn.act = "async" ->
            [threw |-> FALSE, val |-> PromiseRef(i), args |-> <<0>>,
             spawn |-> TRUE]

AwaitReadyEager(v) == TRUE

\* `await v` resumes once v, if a promise, has settled; any other value
\* resumes on the next turn.
AwaitReady(v) ==
    v.kind = "promise" => pstate[v.id] \in {"fulfilled", "rejected"}

\* What `await v` evaluates to, or throws.
AwaitOutcome(v) ==
    IF v.kind = "promise"
    THEN [threw |-> pstate[v.id] = "rejected", val |-> pval[v.id]]
    ELSE [threw |-> FALSE, val |-> v]

Slots == DOMAIN phase

Exit(i, x) ==
    /\ phase'   = [phase   EXCEPT ![i] = x.phase]
    /\ result'  = [result  EXCEPT ![i] = x.result]
    /\ failure' = [failure EXCEPT ![i] = x.failure]

Suspend(i, v) ==
    /\ phase'   = [phase   EXCEPT ![i] = "running"]
    /\ awaited' = [awaited EXCEPT ![i] = v]
    /\ awaits'  = [awaits  EXCEPT ![i] = @ + 1]
    /\ UNCHANGED <<result, failure>>

Spawn(i, r) ==
    /\ pstate' = IF r.spawn THEN [pstate EXCEPT ![i] = "pending"] ELSE pstate
    /\ UNCHANGED pval

----------------------------------------------------------------------------
Init ==
    /\ entry   = [i \in 1..NumInv |-> "none"]
    /\ phase   = [i \in 1..NumInv |-> "idle"]
    /\ outcome = [i \in 1..NumInv |-> NoProducer]
    /\ calls   = [i \in 1..NumInv |-> <<>>]
    /\ awaits  = [i \in 1..NumInv |-> 0]
    /\ awaited = [i \in 1..NumInv |-> NoValue]
    /\ result  = [i \in 1..NumInv |-> NoResult]
    /\ failure = [i \in 1..NumInv |-> NoValue]
    /\ pstate  = [i \in 1..NumInv |-> "none"]
    /\ pval    = [i \in 1..NumInv |-> NoValue]
    /\ comb    = "idle"
    /\ combVal = <<>>

\* The caller's loadDashboard: FanOut branches collected by Promise.all.
FanInit ==
    /\ entry   = [i \in 1..FanOut |-> "none"]
    /\ phase   = [i \in 1..FanOut |-> "idle"]
    /\ outcome = [i \in 1..FanOut |-> NoProducer]
    /\ calls   = [i \in 1..FanOut |-> <<>>]
    /\ awaits  = [i \in 1..FanOut |-> 0]
    /\ awaited = [i \in 1..FanOut |-> NoValue]
    /\ result  = [i \in 1..FanOut |-> NoResult]
    /\ failure = [i \in 1..FanOut |-> NoValue]
    /\ pstate  = [i \in 1..FanOut |-> "none"]
    /\ pval    = [i \in 1..FanOut |-> NoValue]
    /\ comb    = "idle"
    /\ combVal = <<>>

\* try { const data = await fn(); ...  up to the await, or through the catch
\* block when fn() itself throws.
AwaitFnStart(i, e) ==
    /\ phase[i] = "idle"
    /\ \E fn \in Producers :
         LET r == CallFn(i, fn) IN
         /\ entry'   = [entry   EXCEPT ![i] = e]
         /\ outcome' = [outcome EXCEPT ![i] = fn]
         /\ calls'   = [calls   EXCEPT ![i] = r.args]
         /\ Spawn(i, r)
         /\ IF r.threw
            THEN /\ Exit(i, CatchExit(e, r.val))
                 /\ UNCHANGED <<awaits, awaited>>
            ELSE Suspend(i, r.val)
    /\ UNCHANGED <<comb, combVal>>

\* ... the rest after the await: return Ok, or the catch block on rejection.
AwaitResume(i, e) ==
    /\ phase[i] = "running"
    /\ entry[i] = e
    /\ AwaitReady(awaited[i])
    /\ LET o == AwaitOutcome(awaited[i]) IN
         Exit(i, IF o.threw THEN CatchExit(e, o.val) ELSE OkExit(e, o.val))
    /\ UNCHANGED <<entry, outcome, calls, awaits, awaited, pstate, pval,
                   comb, combVal>>

tryAsync(i) == AwaitFnStart(i, "tryAsync")

tryAsyncResume(i) == AwaitResume(i, "tryAsync")

trySafelyTuple(i) == AwaitFnStart(i, "trySafelyTuple")

trySafelyTupleResume(i) == AwaitResume(i, "trySafelyTuple")

trySafely(i) == AwaitFnStart(i, "trySafely")

trySafelyResume(i) == AwaitResume(i, "trySafely")

trySyncAwaiting(i) == AwaitFnStart(i, "trySync")

\* try { const data = fn(); return { data, err: null } } catch ...
trySync(i) ==
    /\ phase[i] = "idle"
    /\ \E fn \in Producers :
         LET r == CallFn(i, fn) IN
         /\ entry'   = [entry   EXCEPT ![i] = "trySync"]
         /\ outcome' = [outcome EXCEPT ![i] = fn]
         /\ calls'   = [calls   EXCEPT ![i] = r.args]
         /\ Spawn(i, r)
         /\ Exit(i, IF r.threw THEN CatchExit("trySync", r.val)
                               ELSE OkExit("trySync", r.val))
    /\ UNCHANGED <<awaits, awaited, comb, combVal>>

\* The default export: the typeof guard before the try, then the call, the
\* thenable test, and either the await or the immediate return.
trySafelyDyn(i) ==
    /\ phase[i] = "idle"
    /\ \E fn \in Producers :
         /\ entry'   = [entry   EXCEPT ![i] = "trySafelyDyn"]
         /\ outcome' = [outcome EXCEPT ![i] = fn]
         /\ IF ~IsFunction(fn)
            THEN /\ Exit(i, ThrowExit("trySafelyDyn",
                                      NewError("fn must be a function")))
                 /\ UNCHANGED <<calls, awaits, awaited, pstate, pval>>
            ELSE LET r == CallFn(i, fn) IN
                 /\ calls' = [calls EXCEPT ![i] = r.args]
                 /\ Spawn(i, r)
                 /\ IF r.threw
                    THEN /\ Exit(i, CatchExit("trySafelyDyn", r.val))
                         /\ UNCHANGED <<awaits, awaited>>
                    ELSE IF r.val # Null /\ ReadThenThrows(r.val)
                    THEN /\ Exit(i, CatchExit("trySafelyDyn", ReadThenError))
                         /\ UNCHANGED <<awaits, awaited>>
                    ELSE IF r.val # Null /\ HasCallableThen(r.val)
                    THEN Suspend(i, r.val)
                    ELSE /\ Exit(i, OkExit("trySafelyDyn", r.val))
                         /\ UNCHANGED <<awaits, awaited>>
    /\ UNCHANGED <<comb, combVal>>

trySafelyDynResume(i) == AwaitResume(i, "trySafelyDyn")

\* try { const data = await promise; ...  : the caller built promise i.
tryPromise(i) ==
    /\ phase[i] = "idle"
    /\ entry'   = [entry   EXCEPT ![i] = "tryPromise"]
    /\ outcome' = [outcome EXCEPT ![i] = PromiseArg]
    /\ pstate'  = [pstate  EXCEPT ![i] = "pending"]
    /\ Suspend(i, PromiseRef(i))
    /\ UNCHANGED <<calls, pval, comb, combVal>>

tryPromiseResume(i) == AwaitResume(i, "tryPromise")

\* The producer's promise settles (the environment; it may never happen).
Settle(i) ==
    /\ pstate[i] = "pending"
    /\ \E st \in {"fulfilled", "rejected"}, v \in Values :
         /\ pstate' = [pstate EXCEPT ![i] = st]
         /\ pval'   = [pval   EXCEPT ![i] = v]
    /\ UNCHANGED <<invVars, comb, combVal>>

\* Promise.all([...]) is called once every branch's call has returned its
\* promise.
AllCall ==
    /\ comb = "idle"
    /\ \A i \in Slots : phase[i] # "idle"
    /\ comb' = "pending"
    /\ UNCHANGED <<invVars, pstate, pval, combVal>>

\* Promise.all rejects as soon as one input promise has rejected.
AllReject ==
    /\ comb = "pending"
    /\ \E i \in Slots :
         /\ phase[i] = "rejected"
         /\ combVal' = <<failure[i]>>
    /\ comb' = "rejected"
    /\ UNCHANGED <<invVars, pstate, pval>>

\* Promise.all fulfils with the array of values once every input fulfilled.
AllFulfil ==
    /\ comb = "pending"
    /\ \A i \in Slots : phase[i] = "done"
    /\ comb' = "fulfilled"
    /\ combVal' = [i \in 1..Cardinality(Slots) |-> result[i]]
    /\ UNCHANGED <<invVars, pstate, pval>>

Next ==
    \/ \E i \in Slots : tryAsync(i)
    \/ \E i \in Slots : tryAsyncResume(i)
    \/ \E i \in Slots : trySync(i)
    \/ \E i \in Slots : trySafelyDyn(i)
    \/ \E i \in Slots : trySafelyDynResume(i)
    \/ \E i \in Slots : trySafelyTuple(i)
    \/ \E i \in Slots : trySafelyTupleResume(i)
    \/ \E i \in Slots : trySafely(i)
    \/ \E i \in Slots : trySafelyResume(i)
    \/ \E i \in Slots : tryPromise(i)
    \/ \E i \in Slots : tryPromiseResume(i)
    \/ \E i \in Slots : Settle(i)

Spec == Init /\ [][Next]_vars

\* README "With Promise.all": branches of trySafely and tryPromise.
FanNext ==
    \/ \E i \in Slots : trySafely(i)
    \/ \E i \in Slots : trySafelyResume(i)
    \/ \E i \in Slots : tryPromise(i)
    \/ \E i \in Slots : tryPromiseResume(i)
    \/ \E i \in Slots : Settle(i)
    \/ AllCall
    \/ AllReject
    \/ AllFulfil

FanSpec == FanInit /\ [][FanNext]_vars

----------------------------------------------------------------------------
\* Vocabulary of the properties.

Started(i)   == phase[i] # "idle"
Completed(i) == phase[i] = "done"
IsOk(i)      == Completed(i) /\ result[i].error = Null
IsErr(i)     == Completed(i) /\ result[i].error # Null

\* A field is present when it is neither null nor undefined.
Present(v) == v.kind \notin {"null", "undefined"}

FnWrappers ==
    {"tryAsync", "trySync", "trySafelyDyn", "trySafelyTuple", "trySafely"}

AsyncEntries ==
    {"tryAsync", "trySafelyDyn", "trySafelyTuple", "trySafely", "tryPromise"}

\* The producer handed the wrapper an awaitable.
YieldsAwaitable(i) == outcome[i].act \in {"async", "promise"}

\* The producer threw synchronously, or the awaitable the wrapper awaited
\* rejected.
ProducerFailed(i) ==
    \/ outcome[i].act = "throw"
    \/ /\ YieldsAwaitable(i)
       /\ entry[i] \in AsyncEntries
       /\ pstate[i] = "rejected"

ThrownValue(i) == IF outcome[i].act = "throw" THEN outcome[i].val ELSE pval[i]

\* The producer returned, or its awaited awaitable fulfilled with, null or
\* undefined.
ProducedNothing(i) ==
    \/ outcome[i].act = "return" /\ ~Present(outcome[i].val)
    \/ /\ YieldsAwaitable(i)
       /\ entry[i] \in AsyncEntries
       /\ pstate[i] = "fulfilled"
       /\ ~Present(pval[i])

----------------------------------------------------------------------------
\* C1: every entry point always completes with a Result; no invocation raises
\* or rejects, except the fully-dynamic trySafely given a non-callable.
C1_NeverRaisesNorRejects ==
    \A i \in Slots :
        phase[i] \in {"raised", "rejected"} =>
            entry[i] = "trySafelyDyn" /\ outcome[i].act = "noncallable"

\* C2 (as claimed): every returned Result has exactly one of payload and
\* error present, also when the producer returns or resolves with null or
\* undefined.
C2_ExactlyOnePresent ==
    \A i \in Slots :
        Completed(i) =>
            (Present(result[i].payload) # Present(result[i].error))

\* C2 (amended): a returned Result never has both payload and error present,
\* and it has neither only when the producer returned or resolved with null
\* or undefined.
C2_NeverBothNeitherOnlyOnEmptyPayload ==
    \A i \in Slots :
        Completed(i) =>
            /\ ~(Present(result[i].payload) /\ Present(result[i].error))
            /\ (~Present(result[i].payload) /\ ~Present(result[i].error))
                   => ProducedNothing(i)

C2_Witness ==
    \E i \in Slots :
        /\ Completed(i)
        /\ outcome[i] = [act |-> "return", val |-> Null]
        /\ ~Present(result[i].payload)
        /\ ~Present(result[i].error)

C4_RaisesOrErrResult ==
    \A i \in Slots :
        (entry[i] = "trySafelyDyn" /\ outcome[i].act = "noncallable") =>
            /\ calls[i] = <<>>
            /\ \/ /\ phase[i] = "raised"
                  /\ failure[i].s = "fn must be a function"
               \/ /\ Completed(i)
                  /\ result[i].shape = "data_err"
                  /\ result[i].payload = Null
                  /\ result[i].error.kind = "error"
                  /\ result[i].error.s = "fn must be a function"

\* C4 (amended): a non-callable given to the fully-dynamic trySafely gives a
\* promise that is already rejected when the call returns, its reason a new
\* Error with message "fn must be a function"; the call does not raise, no
\* Result is produced, and fn is never called nor anything awaited.
C4_RejectsWithoutCalling ==
    \A i \in Slots :
        (entry[i] = "trySafelyDyn" /\ outcome[i].act = "noncallable") =>
            /\ phase[i] = "rejected"
            /\ failure[i] = NewError("fn must be a function")
            /\ result[i] = NoResult
            /\ calls[i] = <<>>
            /\ awaits[i] = 0

C4_Witness ==
    \E i \in Slots :
        /\ entry[i] = "trySafelyDyn"
        /\ outcome[i].act = "noncallable"
        /\ phase[i] = "rejected"

\* C5: in the fully-dynamic trySafely, a producer that returns a value that is
\* not awaitable (42, null, undefined, ...) gives Ok with that value as payload
\* and error null, with no await.
C5_PlainValuePassThrough ==
    \A i \in Slots :
        (/\ entry[i] = "trySafelyDyn"
         /\ outcome[i].act = "return"
         /\ ~HasCallableThen(outcome[i].val)) =>
            /\ Completed(i)
            /\ result[i] = MkOk("data_err", outcome[i].val)
            /\ awaits[i] = 0

\* C6: Promise.all over trySafely / tryPromise branches never rejects, and
\* when it settles it holds one Result per branch, each that branch's own:
\* Err exactly when that branch's producer failed (or was not callable).
C6_FanOutNeverShortCircuits ==
    /\ comb # "rejected"
    /\ comb = "fulfilled" =>
           /\ Len(combVal) = Cardinality(Slots)
           /\ \A i \in Slots :
                  /\ combVal[i] = result[i]
                  /\ combVal[i].error # Null <=>
                         (ProducerFailed(i) \/ ~IsFunction(outcome[i]))

\* C7: in the asynchronous entry points, an invocation whose producer yielded
\* an awaitable is Completed only once the awaitable has settled, Ok exactly
\* when it fulfilled (with its value) and Err exactly when it rejected; while
\* the awaitable is pending the invocation is Running.
C7_CompletionFollowsSettlement ==
    \A i \in Slots :
        (entry[i] \in AsyncEntries /\ YieldsAwaitable(i)) =>
            /\ pstate[i] = "pending" => phase[i] = "running"
            /\ Completed(i) =>
                   /\ pstate[i] \in {"fulfilled", "rejected"}
                   /\ IsOk(i) <=> pstate[i] = "fulfilled"
                   /\ IsErr(i) <=> pstate[i] = "rejected"
                   /\ IsOk(i) => result[i].payload = pval[i]

C7_Witness ==
    \E i \in Slots :
        /\ entry[i] = "trySafelyDyn"
        /\ YieldsAwaitable(i)
        /\ pstate[i] = "rejected"
        /\ IsErr(i)

\* C8: trySafely of src/index.ts and tryPromise resolve to a [result, error]
\* tuple, as the README says.
C8_ResolvesToTuple ==
    \A i \in Slots :
        (Completed(i) /\ entry[i] \in {"trySafely", "tryPromise"}) =>
            result[i].shape = "tuple"

\* C9: a function wrapper given a callable calls it exactly once, with no
\* arguments, and the invocation is only ever Running, Completed(Ok) or
\* Completed(Err); a Completed invocation never changes again.
C9_Once ==
    \A i \in Slots :
        (Started(i) /\ entry[i] \in FnWrappers /\ IsFunction(outcome[i])) =>
            /\ calls[i] = <<0>>
            /\ phase[i] \in {"running", "done"}

C9_Terminal ==
    \A i \in Slots :
        Completed(i) => phase'[i] = "done" /\ result'[i] = result[i]

C9_ExactlyOnceRunningToCompleted == []C9_Once /\ [][C9_Terminal]_vars

\* C10: trySync never awaits: a producer that returns gives Ok at once with
\* the returned value itself as payload, also when it is an awaitable, and the
\* Result stays Ok whatever becomes of that awaitable; Err only after a
\* synchronous throw.
C10_TrySyncNeverAwaits ==
    \A i \in Slots :
        entry[i] = "trySync" =>
            /\ phase[i] \in {"done", "raised"}
            /\ awaits[i] = 0
            /\ outcome[i].act = "return" =>
                   result[i] = MkOk("data_err", outcome[i].val)
            /\ outcome[i].act = "async" =>
                   result[i] = MkOk("data_err", PromiseRef(i))
            /\ (IsErr(i) /\ IsFunction(outcome[i])) => outcome[i].act = "throw"

C10_Witness ==
    \E i \in Slots :
        /\ entry[i] = "trySync"
        /\ outcome[i].act = "async"
        /\ pstate[i] = "rejected"
        /\ IsOk(i)
        /\ result[i].payload = PromiseRef(i)

====
